---- MODULE Spec2Model ----
(***************************************************************************)
(* A model of the two scripts of the Reparaturbonus repository:            *)
(*   scripts/analyser.py                 (the Analyzer)                    *)
(*   scripts/bike_shops_vienna_scraper.py (the Collector)                  *)
(*                                                                         *)
(* Numbers.  Python floats are modelled in fixed point: a number is an     *)
(* integer count of thousandths ("milli"), so 128.19 is 128190.  CPI       *)
(* values are kept in hundredths (136.78 is 13678).  round(x, 2) is exact  *)
(* in the model whenever x is not exactly half-way between two 2-decimal   *)
(* numbers; at an exact half-way point the float result depends on the     *)
(* binary representation of x (round(0.125,2) = 0.12, round(0.005,2) =     *)
(* 0.01), so there the model allows either neighbour.  Functions that      *)
(* round therefore denote the SET of values the call can return.           *)
(*                                                                         *)
(* Strings are sequences of one-character strings, so that parsing,        *)
(* lower-casing, slicing and sorting are computed, not assumed.            *)
(***************************************************************************)
EXTENDS Integers, Sequences, FiniteSets, TLC

VARIABLES
    mode,       \* which script / function is being exercised
    \* ---- a single call of a pure function (adjust_for_inflation, is_float)
    arg,        \* the arguments of the call
    ret,        \* what the call returned or raised; NotCalled before the call
    \* ---- analyser.py
    file,       \* the TSV file: a sequence of rows of raw text cells
    df,         \* the DataFrame: typed cells plus the derived columns
    pc,         \* position in the script
    abortErr,   \* the exception that ended the run, "" when none
    abortRow,   \* the row whose lambda raised, 0 when none
    \* ---- bike_shops_vienna_scraper.py
    rows,       \* df["website"]: one website string per POI record
    idx,        \* the loop variable of `for idx, row in df.iterrows()`
    cpc,        \* position in the script
    archive,    \* per record: <<archive_oldest, archive_newest>>
    calls,      \* per record: how many requests.get calls were issued for it
    tsv,        \* the rows written by df.to_csv, {} before
    outcomes,   \* per record: the outcome of its request (history)
    visited     \* the records in the order the loop visited them (history)

vars == <<mode, arg, ret, file, df, pc, abortErr, abortRow,
          rows, idx, cpc, archive, calls, tsv, outcomes, visited>>

callVars == <<arg, ret>>
analyserVars == <<file, df, pc, abortErr, abortRow>>
scraperVars == <<rows, idx, cpc, archive, calls, tsv, outcomes, visited>>

----------------------------------------------------------------------------
(* Values *)

\* Python None
None == [k |-> "None"]
\* float("nan"): what read_csv stores for an empty cell
NaN == [k |-> "nan"]
\* a float with value milli/1000
Num(milli) == [k |-> "num", v |-> milli]
\* a str
Str(s) == [k |-> "str", s |-> s]
\* an object that is neither a number nor a string (a list, a dict)
Obj == [k |-> "obj"]
\* an exception propagating out of a call
Raise(e) == [k |-> "raise", e |-> e]
NotCalled == [k |-> "notcalled"]

Digits == {"0", "1", "2", "3", "4", "5", "6", "7", "8", "9"}

DigitVal(c) ==
    CASE c = "0" -> 0 [] c = "1" -> 1 [] c = "2" -> 2 [] c = "3" -> 3
      [] c = "4" -> 4 [] c = "5" -> 5 [] c = "6" -> 6 [] c = "7" -> 7
      [] c = "8" -> 8 [] c = "9" -> 9

AllDigits(s) == \A i \in 1..Len(s) : s[i] \in Digits

RECURSIVE DecVal(_)
\* the value of a sequence of digits read as a decimal numeral
DecVal(s) ==
    IF Len(s) = 0 THEN 0
    ELSE 10 * DecVal(SubSeq(s, 1, Len(s) - 1)) + DigitVal(s[Len(s)])

\* Python's s[a:b] for 0 <= a <= b: never raises, clips to the string
Slice(s, a, b) ==
    LET hi == IF b > Len(s) THEN Len(s) ELSE b
    IN IF a >= hi THEN <<>> ELSE SubSeq(s, a + 1, hi)

----------------------------------------------------------------------------
(* analyser.py: the CPI table and adjust_for_inflation *)

\* cpi_2015_base, in hundredths
cpi_2015_base ==
    [y \in 2015..2025 |->
        CASE y = 2015 -> 10000 [] y = 2016 -> 10090 [] y = 2017 -> 10300
          [] y = 2018 -> 10510 [] y = 2019 -> 10670 [] y = 2020 -> 10820
          [] y = 2021 -> 11120 [] y = 2022 -> 12070 [] y = 2023 -> 13010
          [] y = 2024 -> 13400 [] y = 2025 -> 13678]

\* the default of the target_year parameter
DefaultTargetYear == 2025

\* The integers q with n/d rounded to the nearest integer (d > 0): one value,
\* or both neighbours when n/d is exactly half-way.
RoundDiv(n, d) ==
    LET q == n \div d
        r == n - q * d
    IN IF 2 * r < d THEN {q}
       ELSE IF 2 * r > d THEN {q + 1}
       ELSE {q, q + 1}

\* round(price * (cpi_target / cpi_base), 2) for a float price, in milli
Scale(milli, cpi_base, cpi_target) ==
    {Num(10 * c) : c \in RoundDiv(milli * cpi_target, 10 * cpi_base)}

\* A faulty variant: the lookups are not guarded, a missing year escapes as KeyError.
adjust_unguarded(price, base_year, target_year) ==
    IF base_year \notin DOMAIN cpi_2015_base \/ target_year \notin DOMAIN cpi_2015_base
    THEN {Raise("KeyError")}
    ELSE IF price.k = "num"
         THEN Scale(price.v, cpi_2015_base[base_year], cpi_2015_base[target_year])
         ELSE {NaN}
\* A faulty variant: the result is not rounded to 2 places but cut to 3.
adjust_unrounded(price, base_year, target_year) ==
    IF base_year \notin DOMAIN cpi_2015_base \/ target_year \notin DOMAIN cpi_2015_base
    THEN {None}
    ELSE IF price.k = "num"
         THEN {Num((price.v * cpi_2015_base[target_year]) \div cpi_2015_base[base_year])}
         ELSE {NaN}

\* adjust_for_inflation(price, base_year, target_year): the set of outcomes.
\* The two lookups come first: a missing year is a KeyError, caught, and the
\* function returns None whatever the price is.  Only then is the price
\* multiplied: a str price raises TypeError (str * float), which the
\* `except KeyError` does not catch; nan stays nan.
adjust_for_inflation(price, base_year, target_year) ==
    IF base_year \notin DOMAIN cpi_2015_base THEN {None}
    ELSE IF target_year \notin DOMAIN cpi_2015_base THEN {None}
    ELSE CASE price.k = "num" ->
                Scale(price.v, cpi_2015_base[base_year], cpi_2015_base[target_year])
           [] price.k = "nan" -> {NaN}
           [] OTHER -> {Raise("TypeError")}

----------------------------------------------------------------------------
(* analyser.py: is_float *)

\* float(s) for a str s, for the numerals  [+-] digits [. digits]  and
\* [+-] . digits  with at most three fraction digits: the value in milli, or
\* ValueError.  (Exponents, inf/nan, blanks and underscores are not drawn.)
ValueError == [ok |-> FALSE]
ParseFloat(s) ==
    LET signed == Len(s) > 0 /\ s[1] \in {"-", "+"}
        body == IF signed THEN Tail(s) ELSE s
        dots == {i \in 1..Len(body) : body[i] = "."}
        ip == IF dots = {} THEN body
              ELSE SubSeq(body, 1, (CHOOSE i \in dots : TRUE) - 1)
        fp == IF dots = {} THEN <<>>
              ELSE SubSeq(body, (CHOOSE i \in dots : TRUE) + 1, Len(body))
        pad == fp \o SubSeq(<<"0", "0", "0">>, 1, 3 - Len(fp))
        mag == 1000 * DecVal(ip) + DecVal(pad)
    IN IF /\ Cardinality(dots) <= 1
          /\ AllDigits(ip) /\ AllDigits(fp)
          /\ Len(ip) + Len(fp) > 0
          /\ Len(fp) <= 3
       THEN [ok |-> TRUE, v |-> IF signed /\ s[1] = "-" THEN 0 - mag ELSE mag]
       ELSE ValueError

\* pd.isna(val) for a scalar
isna(val) == val.k \in {"nan", "None"}

\* float(val): "ok", or the exception it raises
float_of(val) ==
    CASE val.k = "num" -> "ok"
      [] val.k = "nan" -> "ok"
      [] val.k = "str" -> IF ParseFloat(val.s).ok THEN "ok" ELSE "ValueError"
      [] OTHER -> "TypeError"

\* A faulty variant: the pd.isna test is missing (float(nan) succeeds).
is_float_result_no_isna(val) ==
    IF val = Str(<<>>) \/ val = None THEN "False"
    ELSE IF float_of(val) = "ok" THEN "True" ELSE "False"
\* is_float(val): "True", "False", or the name of an exception leaving the
\* function.  ValueError and TypeError are caught and give "False".
is_float_result(val) ==
    IF isna(val) \/ val = Str(<<>>) \/ val = None THEN "False"
    ELSE IF float_of(val) = "ok" THEN "True"
    ELSE IF float_of(val) \in {"ValueError", "TypeError"} THEN "False"
    ELSE float_of(val)

is_float(val) == is_float_result(val) = "True"

\* the lambda of df["price_info"]
price_info(first_valid, current_valid) ==
    IF first_valid /\ current_valid THEN "both"
    ELSE IF first_valid THEN "only_first"
    ELSE IF current_valid THEN "only_current"
    ELSE "none"

----------------------------------------------------------------------------
(* analyser.py: the script *)

NaT == [k |-> "NaT"]
Date(y, m, d) == [k |-> "date", y |-> y, m |-> m, d |-> d]
Unset == [k |-> "unset"]

\* pd.read_csv's type inference for one column of the file: a column whose
\* non-empty cells are all numerals becomes a float column, any other column
\* an object column of str; an empty cell is nan in both.
ColumnIsNumeric(f, col) ==
    \A i \in 1..Len(f) : f[i][col] = <<>> \/ ParseFloat(f[i][col]).ok

ReadCell(f, i, col) ==
    IF f[i][col] = <<>> THEN NaN
    ELSE IF ColumnIsNumeric(f, col) THEN Num(ParseFloat(f[i][col]).v)
    ELSE Str(f[i][col])

\* df = pd.read_csv(file_path, sep='\t'), with the derived columns not yet set
read_csv(f) ==
    [i \in 1..Len(f) |->
        [offers |-> ReadCell(f, i, "offers"),
         first_price |-> ReadCell(f, i, "first_price"),
         current_price |-> ReadCell(f, i, "current_price"),
         first_date |-> ReadCell(f, i, "first_date"),
         current_date |-> ReadCell(f, i, "current_date"),
         First_Price_Valid |-> FALSE,
         Current_Price_Valid |-> FALSE,
         price_info |-> "",
         in_yes |-> FALSE,
         in_a |-> FALSE,
         in_b |-> FALSE,
         fdate |-> Unset,
         cdate |-> Unset,
         adjusted |-> Unset,
         increase |-> Unset]]

\* str.lower() on the letters the inputs use
Lower(c) ==
    CASE c = "Y" -> "y" [] c = "E" -> "e" [] c = "S" -> "s"
      [] c = "N" -> "n" [] c = "O" -> "o" [] OTHER -> c

\* .str.lower().str.startswith("yes", na=False) for one cell: nan gives False
starts_with_yes(cell) ==
    /\ cell.k = "str"
    /\ Len(cell.s) >= 3
    /\ [j \in 1..3 |-> Lower(cell.s[j])] = <<"y", "e", "s">>

IsLeap(y) == (y % 4 = 0 /\ y % 100 # 0) \/ y % 400 = 0
DaysIn(y, m) ==
    IF m = 2 THEN (IF IsLeap(y) THEN 29 ELSE 28)
    ELSE IF m \in {4, 6, 9, 11} THEN 30 ELSE 31

\* pd.to_datetime(cell, errors="coerce") for the texts YYYY-MM-DD; any other
\* text drawn here is unparseable and coerced to NaT, nan gives NaT.  (A float
\* would be read as nanoseconds since 1970.)
to_datetime(cell) ==
    CASE cell.k = "nan" -> NaT
      [] cell.k = "num" -> Date(1970, 1, 1)
      [] OTHER ->
           LET s == cell.s
               wellFormed == /\ Len(s) = 10
                             /\ s[5] = "-" /\ s[8] = "-"
                             /\ AllDigits(SubSeq(s, 1, 4))
                             /\ AllDigits(SubSeq(s, 6, 7))
                             /\ AllDigits(SubSeq(s, 9, 10))
               y == DecVal(SubSeq(s, 1, 4))
               m == DecVal(SubSeq(s, 6, 7))
               d == DecVal(SubSeq(s, 9, 10))
           IN IF wellFormed /\ m \in 1..12 /\ d \in 1..DaysIn(y, m)
              THEN Date(y, m, d) ELSE NaT

\* yes_subset["First Price Date"] < "2021-01-01": False for NaT
condition_first_before_2021(fdate) ==
    fdate.k = "date" /\ fdate.y * 10000 + fdate.m * 100 + fdate.d < 20210101

\* yes_subset["Current Price Date"].dt.year == 2025: False for NaT
condition_current_in_2025(cdate) ==
    cdate.k = "date" /\ cdate.y = 2025

\* the mask condition_first_before_2021 & condition_current_in_2025
qualifies(fdate, cdate) ==
    condition_first_before_2021(fdate) /\ condition_current_in_2025(cdate)

\* subset_a = yes_subset[mask]
in_subset_a(fdate, cdate) == qualifies(fdate, cdate)

\* A faulty variant: subset_b is selected by the negated first condition alone.
in_subset_b_first_only(fdate, cdate) == ~condition_first_before_2021(fdate)
\* subset_b = yes_subset[~mask]
in_subset_b(fdate, cdate) == ~qualifies(fdate, cdate)

\* float(x) for a value that passed is_float
ToFloat(x) == IF x.k = "num" THEN x.v ELSE ParseFloat(x.s).v

\* The lambda of subset_a["Price Increase (%)"]: the set of outcomes.
price_increase(current_price, adjusted) ==
    IF is_float(current_price) /\ is_float(adjusted)
    THEN LET c == ToFloat(current_price)
             a == ToFloat(adjusted)
         IN IF a = 0 THEN {Raise("ZeroDivisionError")}
            ELSE IF a > 0
                 THEN {Num(10 * q) : q \in RoundDiv((c - a) * 10000, a)}
                 ELSE {Num(10 * q) : q \in RoundDiv((a - c) * 10000, 0 - a)}
    ELSE {None}

SubsetA == {i \in 1..Len(df) : df[i].in_a}
SubsetB == {i \in 1..Len(df) : df[i].in_b}
YesSubset == {i \in 1..Len(df) : df[i].in_yes}

\* the row a running apply(..., axis=1) over subset_a is at
NextRow(col) ==
    {i \in SubsetA : /\ df[i][col] = Unset
                     /\ \A j \in SubsetA : j < i => df[j][col] # Unset}

Abort(e, i) ==
    /\ pc' = "aborted"
    /\ abortErr' = e
    /\ abortRow' = i

\* line 5
Load ==
    /\ mode = "analyser" /\ pc = "read_csv"
    /\ df' = read_csv(file)
    /\ pc' = "classify"
    /\ UNCHANGED <<mode, file, abortErr, abortRow, callVars, scraperVars>>

\* lines 48-72: the two validity columns and price_info
Classify ==
    /\ mode = "analyser" /\ pc = "classify"
    /\ df' = [i \in 1..Len(df) |->
                [df[i] EXCEPT
                   !.First_Price_Valid = is_float(df[i].first_price),
                   !.Current_Price_Valid = is_float(df[i].current_price),
                   !.price_info = price_info(is_float(df[i].first_price),
                                             is_float(df[i].current_price))]]
    /\ pc' = "partition"
    /\ UNCHANGED <<mode, file, abortErr, abortRow, callVars, scraperVars>>

\* lines 86-98.  The .str accessor exists only on an object column: an
\* "offers repair" column without any text raises AttributeError.
Partition ==
    /\ mode = "analyser" /\ pc = "partition"
    /\ IF ColumnIsNumeric(file, "offers")
       THEN Abort("AttributeError", 0) /\ UNCHANGED df
       ELSE /\ df' = [i \in 1..Len(df) |->
                       LET yes == starts_with_yes(df[i].offers)
                           fd == to_datetime(df[i].first_date)
                           cd == to_datetime(df[i].current_date)
                       IN [df[i] EXCEPT
                             !.in_yes = yes,
                             !.fdate = IF yes THEN fd ELSE Unset,
                             !.cdate = IF yes THEN cd ELSE Unset,
                             !.in_a = yes /\ in_subset_a(fd, cd),
                             !.in_b = yes /\ in_subset_b(fd, cd)]]
            /\ pc' = "adjust"
            /\ UNCHANGED <<abortErr, abortRow>>
    /\ UNCHANGED <<mode, file, callVars, scraperVars>>

\* lines 101-103, one row of the apply: the lambda passes row["First Price"]
\* as it is (no float()) and the year of the parsed First Price Date.
AdjustRow ==
    /\ mode = "analyser" /\ pc = "adjust"
    /\ \E i \in NextRow("adjusted") :
         \E r \in adjust_for_inflation(df[i].first_price, df[i].fdate.y, DefaultTargetYear) :
            IF r.k = "raise"
            THEN Abort(r.e, i) /\ UNCHANGED df
            ELSE /\ df' = [df EXCEPT ![i].adjusted = r]
                 /\ UNCHANGED <<pc, abortErr, abortRow>>
    /\ UNCHANGED <<mode, file, callVars, scraperVars>>

\* line 101 when subset_a has no row (or none is left): the new column is
\* assigned and the script goes on.  With an empty subset_a, DataFrame.apply
\* returns an empty DataFrame, not a Series, and pandas versions that refuse
\* to assign a frame to one column raise ValueError: either outcome is allowed.
AdjustDone ==
    /\ mode = "analyser" /\ pc = "adjust"
    /\ NextRow("adjusted") = {}
    /\ \/ pc' = "increase" /\ UNCHANGED <<abortErr, abortRow>>
       \/ SubsetA = {} /\ Abort("ValueError", 0)
    /\ UNCHANGED <<mode, file, df, callVars, scraperVars>>

\* lines 105-112, one row of the apply
IncreaseRow ==
    /\ mode = "analyser" /\ pc = "increase"
    /\ \E i \in NextRow("increase") :
         \E r \in price_increase(df[i].current_price, df[i].adjusted) :
            IF r.k = "raise"
            THEN Abort(r.e, i) /\ UNCHANGED df
            ELSE /\ df' = [df EXCEPT ![i].increase = r]
                 /\ UNCHANGED <<pc, abortErr, abortRow>>
    /\ UNCHANGED <<mode, file, callVars, scraperVars>>

\* lines 114-132: mean, median and the printed report
Summary ==
    /\ mode = "analyser" /\ pc = "increase"
    /\ NextRow("increase") = {}
    /\ pc' = "done"
    /\ UNCHANGED <<mode, file, df, abortErr, abortRow, callVars, scraperVars>>

NextAnalyser == Load \/ Classify \/ Partition \/ AdjustRow \/ AdjustDone \/ IncreaseRow \/ Summary

----------------------------------------------------------------------------
(* bike_shops_vienna_scraper.py *)

\* The outcome of requests.get(api_url, params=params, timeout=10):
\*   [k |-> "exc", e |-> name]            the call raised (timeout, no network)
\*   [k |-> "http", status, body]         a response arrived
\* and the body of a response:
\*   [k |-> "notjson"]                    response.json() raises
\*   [k |-> "dict"]                       a JSON object with two members
\*   [k |-> "list", data |-> rows]        a JSON array of arrays
Exc(e) == [k |-> "exc", e |-> e]
Http(status, body) == [k |-> "http", status |-> status, body |-> body]
NotJson == [k |-> "notjson"]
JsonDict == [k |-> "dict"]
JsonList(data) == [k |-> "list", data |-> data]

RECURSIVE LexLess(_, _)
\* a < b for two str of digits, as Python compares str
LexLess(a, b) ==
    IF Len(b) = 0 THEN FALSE
    ELSE IF Len(a) = 0 THEN TRUE
    ELSE IF a[1] # b[1] THEN DigitVal(a[1]) < DigitVal(b[1])
    ELSE LexLess(Tail(a), Tail(b))

\* f"{t[:4]}-{t[4:6]}-{t[6:8]}"
format_date(t) ==
    Str(Slice(t, 0, 4) \o <<"-">> \o Slice(t, 4, 6) \o <<"-">> \o Slice(t, 6, 8))

Returned(oldest, newest) == [k |-> "return", pair |-> <<oldest, newest>>]

\* A faulty variant: a response needs two timestamp rows besides the header.
try_block_two_entries(o) ==
    IF o.k = "exc" THEN Raise(o.e)
    ELSE IF o.status # 200 THEN Returned(None, None)
    ELSE IF o.body.k = "notjson" THEN Raise("JSONDecodeError")
    ELSE IF o.body.k = "dict" THEN Raise("TypeError")
    ELSE IF Len(o.body.data) < 3 THEN Returned(None, None)
    ELSE LET data == o.body.data
         IN IF \E i \in 2..Len(data) : Len(data[i]) < 2 THEN Raise("IndexError")
            ELSE LET timestamps == SortSeq([i \in 1..(Len(data) - 1) |-> data[i + 1][2]], LexLess)
                 IN Returned(format_date(timestamps[1]), format_date(timestamps[Len(timestamps)]))
\* The body of the try statement (lines 62-78) for a request outcome o: what
\* it returns, or the exception it raises.  A JSON object of two members
\* passes len(data) < 2 and fails at data[1:]; a row without a second element
\* fails at entry[1].
try_block(o) ==
    IF o.k = "exc" THEN Raise(o.e)
    ELSE IF o.status # 200 THEN Returned(None, None)
    ELSE IF o.body.k = "notjson" THEN Raise("JSONDecodeError")
    ELSE IF o.body.k = "dict" THEN Raise("TypeError")
    ELSE IF Len(o.body.data) < 2 THEN Returned(None, None)
    ELSE LET data == o.body.data
         IN IF \E i \in 2..Len(data) : Len(data[i]) < 2 THEN Raise("IndexError")
            ELSE LET timestamps == SortSeq([i \in 1..(Len(data) - 1) |-> data[i + 1][2]], LexLess)
                 IN Returned(format_date(timestamps[1]), format_date(timestamps[Len(timestamps)]))

\* A faulty variant: only the exceptions of the requests library are caught.
except_clause_requests_only(e) == e \in {"Timeout", "ConnectionError"}
\* `except Exception as e`: every exception a request or its parsing raises
\* derives from Exception
except_clause(e) == TRUE

\* lines 61-82 for a non-empty url: the pair returned, or an exception that
\* leaves the function
lookup(o) ==
    LET t == try_block(o)
    IN IF t.k = "raise"
       THEN (IF except_clause(t.e) THEN Returned(None, None) ELSE t)
       ELSE t

\* `if not url`
is_empty_url(url) == url = <<>>

\* df["archive_oldest"] = ""; df["archive_newest"] = ""
EmptyCells == <<Str(<<>>), Str(<<>>)>>

----------------------------------------------------------------------------
(* Inputs of the Collector *)

\* how many POI records the geographic query returned, at most
MaxRecords == 2
\* how many timestamp rows a snapshot-index response holds, at most
MaxEntries == 2

WebsiteInputs == {<<>>, <<"a", ".", "a", "t">>}

HeaderRow == <<<<"k">>, <<"t">>>>
TsInputs == {<<"2", "0", "1", "9", "0", "3", "1", "5", "1", "2", "0", "0", "0", "0">>,
             <<"2", "0", "0", "5", "0", "1", "0", "1", "0", "0", "0", "0", "0", "0">>}
\* a data row [urlkey, timestamp], or a row cut short after its first element
EntryInputs == {<<<<"u">>, t>> : t \in TsInputs} \cup {<<<<"u">>>>}

SeqsUpTo(S, n) == UNION {[1..m -> S] : m \in 0..n}

\* [] (no capture), or the header row followed by up to MaxEntries rows
JsonLists == {<<>>} \cup {<<HeaderRow>> \o e : e \in SeqsUpTo(EntryInputs, MaxEntries)}

Outcomes ==
    {Exc("Timeout"), Exc("ConnectionError"), Http(503, NotJson), Http(200, NotJson),
     Http(200, JsonDict)}
    \cup {Http(200, JsonList(d)) : d \in JsonLists}
    \cup {Http(404, JsonList(<<>>))}

----------------------------------------------------------------------------
(* The enrichment loop *)

\* A faulty variant: a failed lookup is tried once more.
Respond_with_retry ==
    /\ mode = "scraper" /\ cpc = "waiting"
    /\ \E o \in Outcomes :
         LET r == lookup(o)
         IN /\ outcomes' = [outcomes EXCEPT ![idx] = o]
            /\ IF r.pair = <<None, None>> /\ calls[idx] < 2
               THEN /\ calls' = [calls EXCEPT ![idx] = @ + 1]
                    /\ UNCHANGED <<archive, idx, cpc>>
               ELSE /\ archive' = [archive EXCEPT ![idx] = r.pair]
                    /\ idx' = idx + 1
                    /\ cpc' = "loop"
                    /\ UNCHANGED calls
    /\ UNCHANGED <<mode, arg, ret, rows, tsv, visited, analyserVars>>

\* lines 88-90 and 52-62: the loop takes the next record and calls the
\* function; an empty website returns at once, otherwise the request is sent.
Visit ==
    /\ mode = "scraper" /\ cpc = "loop"
    /\ idx <= Len(rows)
    /\ visited' = Append(visited, idx)
    /\ IF is_empty_url(rows[idx])
       THEN /\ archive' = [archive EXCEPT ![idx] = <<None, None>>]
            /\ idx' = idx + 1
            /\ UNCHANGED <<cpc, calls>>
       ELSE /\ calls' = [calls EXCEPT ![idx] = @ + 1]
            /\ cpc' = "waiting"
            /\ UNCHANGED <<archive, idx>>
    /\ UNCHANGED <<mode, arg, ret, rows, tsv, outcomes, analyserVars>>

\* lines 62-82 and 91-92: the request ends with some outcome, the function
\* returns and the two cells of the record are set.
Respond ==
    /\ mode = "scraper" /\ cpc = "waiting"
    /\ \E o \in Outcomes :
         LET r == lookup(o)
         IN /\ outcomes' = [outcomes EXCEPT ![idx] = o]
            /\ IF r.k = "raise"
               THEN /\ cpc' = "aborted"
                    /\ UNCHANGED <<archive, idx>>
               ELSE /\ archive' = [archive EXCEPT ![idx] = r.pair]
                    /\ idx' = idx + 1
                    /\ cpc' = "loop"
    /\ UNCHANGED <<mode, arg, ret, rows, calls, tsv, visited, analyserVars>>

\* df.to_csv(...): the rows written
to_csv(websites, cells) ==
    {[row |-> i, website |-> websites[i],
      archive_oldest |-> cells[i][1], archive_newest |-> cells[i][2]] : i \in 1..Len(websites)}

\* lines 95-117: the loop is over, the table is written
Save ==
    /\ mode = "scraper" /\ cpc = "loop"
    /\ idx > Len(rows)
    /\ tsv' = to_csv(rows, archive)
    /\ cpc' = "done"
    /\ UNCHANGED <<mode, arg, ret, rows, idx, archive, calls, outcomes, visited, analyserVars>>

NextScraper == Visit \/ Respond \/ Save

----------------------------------------------------------------------------
(* Single calls of the pure functions *)

\* adjust_for_inflation(arg.price, arg.base_year, arg.target_year)
CallAdjust ==
    /\ mode = "adjust" /\ ret = NotCalled
    /\ ret' \in adjust_for_inflation(arg.price, arg.base_year, arg.target_year)
    /\ UNCHANGED <<mode, arg, analyserVars, scraperVars>>

\* lines 48-72 for one row: is_float on both prices, then the price_info lambda
CallIsFloat ==
    /\ mode = "is_float" /\ ret = NotCalled
    /\ ret' = [first |-> is_float_result(arg.first),
               current |-> is_float_result(arg.current),
               price_info |-> IF is_float_result(arg.first) \in {"True", "False"}
                                 /\ is_float_result(arg.current) \in {"True", "False"}
                              THEN price_info(is_float(arg.first), is_float(arg.current))
                              ELSE ""]
    /\ UNCHANGED <<mode, arg, analyserVars, scraperVars>>

----------------------------------------------------------------------------
(* Inputs of the Analyzer and of the single calls *)

\* how many rows the TSV file holds, at most
MaxRows == 2
\* prices from -MaxSmallPrice to MaxSmallPrice thousandths are all drawn
MaxSmallPrice == 30
\* how many years before 2015 and after 2025 are drawn
YearMargin == 2
\* the longest str drawn for is_float
MaxStrLen == 3

PriceInputs ==
    {Num(p) : p \in (0 - MaxSmallPrice)..MaxSmallPrice}
    \cup {Num(125), Num(1000), Num(12345), Num(100000), Num(130000), Num(0 - 12500), NaN}
YearInputs == (2015 - YearMargin)..(2025 + YearMargin)

Alphabet == {"1", ".", "-", "a"}
StrInputs ==
    SeqsUpTo(Alphabet, MaxStrLen) \cup {<<"1", "2", ".", "5">>, <<"a", "b", "c">>, <<"1", "0", "0">>}
ValueInputs ==
    {None, NaN, Obj, Num(12500), Num(0)} \cup {Str(t) : t \in StrInputs}

Row(o, fp, cp, fd, cd) ==
    [offers |-> o, first_price |-> fp, current_price |-> cp,
     first_date |-> fd, current_date |-> cd]

\* the rows drawn to exercise the partitioning: every price is a numeral
PartitionRows ==
    {Row(o, <<"1", "0", "0">>, <<"1", "3", "0">>, fd, cd) :
        o \in {<<"Y", "e", "s", ",", " ", "f", "u", "l", "l", " ", "s", "e", "r", "v", "i", "c", "e">>, <<"y", "E", "S">>, <<"N", "o">>, <<>>},
        fd \in {<<"2", "0", "2", "0", "-", "1", "2", "-", "3", "1">>, <<"2", "0", "2", "1", "-", "0", "1", "-", "0", "1">>, <<"2", "0", "2", "2", "-", "0", "1", "-", "0", "1">>, <<"s", "o", "o", "n">>},
        cd \in {<<"2", "0", "2", "5", "-", "0", "2", "-", "1", "0">>, <<"2", "0", "2", "4", "-", "1", "2", "-", "3", "1">>, <<>>}}

\* the rows drawn to exercise the price columns
PriceRows ==
    {Row(o, fp, cp, fd, <<"2", "0", "2", "5", "-", "0", "2", "-", "1", "0">>) :
        o \in {<<"Y", "e", "s", ",", " ", "f", "u", "l", "l", " ", "s", "e", "r", "v", "i", "c", "e">>, <<"N", "o">>},
        fp \in {<<"1", "0", "0">>, <<"0">>, <<"a", "b", "c">>, <<>>},
        cp \in {<<"1", "3", "0">>, <<"a", "b", "c">>, <<>>},
        fd \in {<<"2", "0", "1", "9", "-", "0", "6", "-", "0", "1">>, <<"2", "0", "1", "4", "-", "0", "6", "-", "0", "1">>}}

Files(R) == UNION {[1..n -> R] : n \in 1..MaxRows}

InitCall ==
    /\ arg = None /\ ret = NotCalled
InitAnalyserIdle ==
    /\ file = <<>> /\ df = <<>> /\ pc = "idle" /\ abortErr = "" /\ abortRow = 0
InitScraperIdle ==
    /\ rows = <<>> /\ idx = 1 /\ cpc = "idle" /\ archive = <<>> /\ calls = <<>>
    /\ tsv = {} /\ outcomes = <<>> /\ visited = <<>>

InitAdjust ==
    /\ mode = "adjust"
    /\ arg \in [price : PriceInputs, base_year : YearInputs, target_year : YearInputs]
    /\ ret = NotCalled
    /\ InitAnalyserIdle /\ InitScraperIdle

InitIsFloat ==
    /\ mode = "is_float"
    /\ arg \in [first : ValueInputs, current : ValueInputs]
    /\ ret = NotCalled
    /\ InitAnalyserIdle /\ InitScraperIdle

InitAnalyser(R) ==
    /\ mode = "analyser"
    /\ file \in Files(R)
    /\ df = <<>> /\ pc = "read_csv" /\ abortErr = "" /\ abortRow = 0
    /\ InitCall /\ InitScraperIdle

InitPartition == InitAnalyser(PartitionRows)
InitPrices == InitAnalyser(PriceRows)

\* the state after lines 1-86: the records are in df, the two archive
\* columns hold "" and the loop is about to start
InitScraper ==
    /\ mode = "scraper"
    /\ rows \in SeqsUpTo(WebsiteInputs, MaxRecords)
    /\ idx = 1 /\ cpc = "loop"
    /\ archive = [i \in 1..Len(rows) |-> EmptyCells]
    /\ calls = [i \in 1..Len(rows) |-> 0]
    /\ outcomes = [i \in 1..Len(rows) |-> None]
    /\ tsv = {} /\ visited = <<>>
    /\ InitCall /\ InitAnalyserIdle

Init == InitAdjust \/ InitIsFloat \/ InitPartition \/ InitPrices \/ InitScraper
Next == CallAdjust \/ CallIsFloat \/ NextAnalyser \/ NextScraper

Spec == Init /\ [][Next]_vars
SpecAdjust == InitAdjust /\ [][CallAdjust]_vars
SpecIsFloat == InitIsFloat /\ [][CallIsFloat]_vars
SpecPartition == InitPartition /\ [][NextAnalyser]_vars
SpecPrices == InitPrices /\ [][NextAnalyser]_vars
SpecScraper == InitScraper /\ [][NextScraper]_vars
\* the loop is a plain for loop and every request has a timeout: each step
\* that can be taken is taken
FairSpecScraper == SpecScraper /\ WF_vars(NextScraper)
\* under that fairness the table is written in the end
ScraperTerminates == <>(cpc = "done")

----------------------------------------------------------------------------
(* Claims *)

Abs(x) == IF x < 0 THEN 0 - x ELSE x
CpiYears == 2015..2025

\* r (milli) is n/d rounded to 2 decimal places, n/d given in milli
IsRounded2(r, n, d) == r % 10 = 0 /\ 2 * Abs(r * d - n) <= 10 * d

\* C1: adjust_for_inflation never raises; with base_year or target_year
\* missing from the CPI table it returns None; with both present and a float
\* price it returns price * CPI(target_year) / CPI(base_year) rounded to 2
\* decimal places.
C1_AdjustNullOrRounded ==
    ret # NotCalled =>
        /\ ret.k # "raise"
        /\ (arg.base_year \notin CpiYears \/ arg.target_year \notin CpiYears) => ret = None
        /\ (arg.base_year \in CpiYears /\ arg.target_year \in CpiYears /\ arg.price.k = "num") =>
              /\ ret.k = "num"
              /\ IsRounded2(ret.v, arg.price.v * cpi_2015_base[arg.target_year],
                            cpi_2015_base[arg.base_year])

\* a call with base year 2014, which the table lacks, has returned None
C1_Witness ==
    /\ arg = [price |-> Num(100000), base_year |-> 2014, target_year |-> 2025]
    /\ ret = None

\* C7 as stated: for every price p > 0 and every year y of the table,
\* adjust_for_inflation(p, y, y) returns p unchanged.
C7_SameYearUnchanged ==
    (/\ ret # NotCalled
     /\ arg.price.k = "num" /\ arg.price.v > 0
     /\ arg.base_year = arg.target_year /\ arg.base_year \in CpiYears)
    => ret = arg.price

\* C7 amended: for every price p > 0 and every year y of the table,
\* adjust_for_inflation(p, y, y) returns p rounded to 2 decimal places, which
\* is p itself when p has at most 2 decimal places.
C7_SameYearRounded ==
    (/\ ret # NotCalled
     /\ arg.price.k = "num" /\ arg.price.v > 0
     /\ arg.base_year = arg.target_year /\ arg.base_year \in CpiYears)
    => /\ ret.k = "num"
       /\ ret.v % 10 = 0
       /\ 2 * Abs(ret.v - arg.price.v) <= 10
       /\ arg.price.v % 10 = 0 => ret = arg.price

\* 0.012 adjusted from 2019 to 2019 has come back as 0.01
C7_Witness ==
    /\ arg = [price |-> Num(12), base_year |-> 2019, target_year |-> 2019]
    /\ ret = Num(10)

\* a numeral: an optional sign, then digits with at most one point among them
IsNumeral(t) ==
    LET b == IF Len(t) > 0 /\ t[1] \in {"+", "-"} THEN Tail(t) ELSE t
    IN /\ \A i \in 1..Len(b) : b[i] \in Digits \cup {"."}
       /\ Cardinality({i \in 1..Len(b) : b[i] = "."}) <= 1
       /\ \E i \in 1..Len(b) : b[i] \in Digits

\* non-null, non-empty and parseable as a float
ValidFloat(val) ==
    /\ val \notin {None, NaN}
    /\ val # Str(<<>>)
    /\ val.k = "num" \/ (val.k = "str" /\ IsNumeral(val.s))

PartitionDone ==
    \/ pc \in {"adjust", "increase", "done"}
    \/ pc = "aborted" /\ abortErr # "AttributeError"

\* the text of "offers repair" starts with yes in any letter case
TextStartsWithYes(t) ==
    /\ Len(t) >= 3
    /\ t[1] \in {"y", "Y"} /\ t[2] \in {"e", "E"} /\ t[3] \in {"s", "S"}

\* First Price Date is a date before 2021 and Current Price Date one of 2025
RowQualifies(i) ==
    LET fd == to_datetime(ReadCell(file, i, "first_date"))
        cd == to_datetime(ReadCell(file, i, "current_date"))
    IN /\ fd # NaT /\ fd.y < 2021
       /\ cd # NaT /\ cd.y = 2025

\* C4: every yes row is in exactly one of subset_a and subset_b, in subset_a
\* iff its First Price Date is before 2021-01-01 and its Current Price Date is
\* in 2025; other rows are in neither; the two counts add up to the yes rows.
C4_Partition ==
    PartitionDone =>
        /\ \A i \in 1..Len(df) :
              IF TextStartsWithYes(file[i].offers)
              THEN /\ df[i].in_a # df[i].in_b
                   /\ df[i].in_a <=> RowQualifies(i)
              ELSE ~df[i].in_a /\ ~df[i].in_b
        /\ Cardinality(SubsetA) + Cardinality(SubsetB)
              = Cardinality({i \in 1..Len(file) : TextStartsWithYes(file[i].offers)})

\* a run has ended with one row in subset_a and a row dated 2022-01-01, with
\* a Current Price Date in 2025, in subset_b
C4_Witness ==
    /\ pc = "done" /\ Len(df) = 2
    /\ df[1].in_a /\ ~df[1].in_b
    /\ file[2].first_date = <<"2", "0", "2", "2", "-", "0", "1", "-", "0", "1">> /\ file[2].current_date = <<"2", "0", "2", "5", "-", "0", "2", "-", "1", "0">>
    /\ df[2].in_b /\ ~df[2].in_a

\* the apply of lines 101-112 is under way or over
PricesStarted == pc \in {"adjust", "increase", "done", "aborted"}

\* C2: a qualifying row whose First Price or Current Price is no valid float
\* does not abort the run and gets a null Price Increase (%).
C2_ParseFailureNeverAborts ==
    \A i \in 1..Len(df) :
        (/\ PricesStarted /\ df[i].in_a
         /\ ~ValidFloat(df[i].first_price) \/ ~ValidFloat(df[i].current_price))
        => /\ abortRow # i
           /\ pc = "done" => df[i].increase = None

\* C3: a qualifying row whose adjusted first price is 0 and whose Current
\* Price is a valid float does not abort the run and gets a null
\* Price Increase (%).
C3_ZeroAdjustedIsNull ==
    \A i \in 1..Len(df) :
        (/\ PricesStarted /\ df[i].in_a
         /\ df[i].adjusted = Num(0)
         /\ ValidFloat(df[i].current_price))
        => /\ abortRow # i
           /\ pc = "done" => df[i].increase = None

\* the value in milli of a price cell that is a valid float
PriceOf(x) == IF x.k = "num" THEN x.v ELSE ParseFloat(x.s).v

\* Price Increase (%) and the adjusted price of row i are the numbers of the
\* claim's formula
RowHasIncrease(i) ==
    LET f == PriceOf(df[i].first_price)
        c == PriceOf(df[i].current_price)
        a == df[i].adjusted
        inc == df[i].increase
    IN /\ a.k = "num"
       /\ IsRounded2(a.v, f * cpi_2015_base[2025], cpi_2015_base[df[i].fdate.y])
       /\ a.v # 0
       /\ inc.k = "num"
       /\ inc.v % 10 = 0
       /\ 2 * Abs(inc.v * a.v - (c - a.v) * 100000) <= 10 * Abs(a.v)

\* C5: when the run is over, every qualifying row with valid First Price and
\* Current Price and a base year of the CPI table has
\* Price Increase (%) = round((Current - Adjusted) / Adjusted * 100, 2) with
\* Adjusted = round(First * CPI(2025) / CPI(year(First Price Date)), 2).
C5_PriceIncreaseFormula ==
    \A i \in 1..Len(df) :
        (/\ pc \in {"done", "aborted"} /\ df[i].in_a
         /\ ValidFloat(df[i].first_price) /\ ValidFloat(df[i].current_price)
         /\ df[i].fdate.y \in CpiYears)
        => RowHasIncrease(i)

\* The same for the runs that reach the summary (no row raised).
PriceIncreaseWhenDone ==
    \A i \in 1..Len(df) :
        (/\ pc = "done" /\ df[i].in_a
         /\ ValidFloat(df[i].first_price) /\ ValidFloat(df[i].current_price)
         /\ df[i].fdate.y \in CpiYears)
        => RowHasIncrease(i)

\* the example row: 100 in 2019 against 130 in 2025 gives 128.19 and 1.41
ExampleRowNotComputed ==
    ~(/\ pc = "done" /\ Len(df) = 1
      /\ df[1].first_price = Num(100000) /\ df[1].current_price = Num(130000)
      /\ df[1].fdate = Date(2019, 6, 1)
      /\ df[1].adjusted = Num(128190) /\ df[1].increase = Num(1410))

\* the records whose lookup has returned
Processed == {i \in 1..Len(rows) : i < idx}

\* the lookup of a request with outcome o failed: no response, a non-success
\* status, or a body that is no array of [urlkey, timestamp] rows
Failed(o) ==
    \/ o.k = "exc"
    \/ o.k = "http" /\ o.status # 200
    \/ o.k = "http" /\ o.body.k \in {"notjson", "dict"}
    \/ o.k = "http" /\ o.body.k = "list"
         /\ \E j \in 2..Len(o.body.data) : Len(o.body.data[j]) < 2

\* how many timestamp rows follow the header in a well-formed response
TimestampEntries(o) ==
    IF Len(o.body.data) = 0 THEN 0 ELSE Len(o.body.data) - 1

NullPair == <<None, None>>

\* C8: the loop never aborts on a lookup outcome: it visits the records in
\* order, can always go on until the table is written, writes one row per
\* record, gives a record whose lookup failed (None, None), and the cells of
\* a record depend on that record's own outcome only.
C8_LookupFailureNeverAborts ==
    /\ cpc # "aborted"
    /\ visited = [i \in 1..Len(visited) |-> i]
    /\ cpc = "done" \/ ENABLED NextScraper
    /\ cpc = "done" =>
          /\ Len(visited) = Len(rows)
          /\ Cardinality(tsv) = Len(rows)
          /\ \A i \in 1..Len(rows) :
                \E r \in tsv : /\ r.row = i /\ r.website = rows[i]
                               /\ <<r.archive_oldest, r.archive_newest>> = archive[i]
    /\ \A i \in Processed :
          (~is_empty_url(rows[i]) /\ Failed(outcomes[i])) => archive[i] = NullPair
    /\ \A i, j \in Processed :
          (~is_empty_url(rows[i]) /\ ~is_empty_url(rows[j]) /\ outcomes[i] = outcomes[j])
          => archive[i] = archive[j]

\* a run over two records has ended: the first lookup timed out and left
\* (None, None), the second was enriched all the same
C8_Witness ==
    /\ cpc = "done" /\ Len(rows) = 2
    /\ outcomes[1] = Exc("Timeout") /\ archive[1] = NullPair
    /\ archive[2] = <<Str(<<"2", "0", "0", "5", "-", "0", "1", "-", "0", "1">>), Str(<<"2", "0", "1", "9", "-", "0", "3", "-", "1", "5">>)>>
    /\ Cardinality(tsv) = 2

\* C9 as stated: (None, None) whenever the website is empty, the lookup
\* fails, or fewer than two timestamp entries are returned (header only, or
\* header plus a single timestamp row).
C9_FewerThanTwoTimestamps ==
    \A i \in Processed :
        (\/ is_empty_url(rows[i])
         \/ Failed(outcomes[i])
         \/ TimestampEntries(outcomes[i]) < 2)
        => archive[i] = NullPair

\* C9 amended: (None, None) whenever the website is empty, the lookup fails,
\* or the response has fewer than two rows, that is no timestamp entry (empty
\* or header only); a header plus a single timestamp row gives the date of
\* that timestamp as both oldest and newest.
C9_NoTimestampIsNull ==
    \A i \in Processed :
        /\ (\/ is_empty_url(rows[i])
            \/ Failed(outcomes[i])
            \/ TimestampEntries(outcomes[i]) < 1)
           => archive[i] = NullPair
        /\ (/\ ~is_empty_url(rows[i])
            /\ ~Failed(outcomes[i])
            /\ TimestampEntries(outcomes[i]) = 1)
           => /\ archive[i][1] = archive[i][2]
              /\ archive[i][1].k = "str"
              /\ LET t == outcomes[i].body.data[2][2]
                 IN archive[i][1].s = SubSeq(t, 1, 4) \o <<"-">> \o SubSeq(t, 5, 6)
                                        \o <<"-">> \o SubSeq(t, 7, 8)

\* a lookup whose response held the header and the one timestamp
\* 20190315120000 has returned 2019-03-15 twice
C9_Witness ==
    \E i \in Processed :
        /\ outcomes[i] = Http(200, JsonList(<<HeaderRow, <<<<"u">>, <<"2", "0", "1", "9", "0", "3", "1", "5", "1", "2", "0", "0", "0", "0">>>>>>))
        /\ archive[i] = <<Str(<<"2", "0", "1", "9", "-", "0", "3", "-", "1", "5">>), Str(<<"2", "0", "1", "9", "-", "0", "3", "-", "1", "5">>)>>

\* C10: a record with an empty website causes no request and gets
\* (None, None); a record with a website causes exactly one request, also
\* after a failure; the request of a record is sent only after the lookups of
\* all earlier records have returned.
C10_OneShotSequential ==
    \A i \in 1..Len(rows) :
        /\ calls[i] <= 1
        /\ is_empty_url(rows[i]) =>
              /\ calls[i] = 0
              /\ i \in Processed => archive[i] = NullPair
        /\ ~is_empty_url(rows[i]) =>
              (calls[i] = 1 <=> (i \in Processed \/ (i = idx /\ cpc = "waiting")))
        /\ calls[i] > 0 => \A j \in 1..(i - 1) : archive[j] # EmptyCells /\ j \in Processed

\* the lookup of the first record has failed, was not repeated, and the
\* request of the second record is now under way
C10_Witness ==
    /\ Len(rows) = 2 /\ idx = 2 /\ cpc = "waiting"
    /\ outcomes[1] = Exc("ConnectionError")
    /\ calls = <<1, 1>>

====
